---- MODULE Spec2Model ----
(***************************************************************************)
(* A model of the TypeScript declarations generator of src/api.ts.         *)
(*                                                                         *)
(* Text is a sequence of tokens.  A token is either one character of an    *)
(* interpolated string (a variable name, a type name, a struct name, an    *)
(* interface name, the namespace) or one literal piece of a template       *)
(* literal of the source ("interface ", ": ", "\n\t", ...).  Concatenation *)
(* of JavaScript strings is concatenation of token sequences.              *)
(*                                                                         *)
(* An optional value (a property that may be undefined or null) is a       *)
(* sequence of length 0 (absent) or 1 (present).                           *)
(*                                                                         *)
(* A call that throws yields a result with threw = TRUE and no value.      *)
(***************************************************************************)
EXTENDS Integers, Sequences, FiniteSets, TLC

VARIABLES
  fn,         \* the function that was called; "idle" before any call
  variable,   \* the GLSLVariable handed to writeVariable
  variables,  \* the GLSLVariable[] | null handed to writeInterface; parse(code) in generate
  name,       \* writeInterface: name; capitalize: word; generate: namespace
  isExport,   \* the isExport argument of writeInterface
  options,    \* the third argument of generate
  threw,      \* whether the call ended by throwing
  error,      \* what was thrown
  returned,   \* the string the call returned (empty when it threw)
  console     \* the messages written with console.error during the call

vars == <<fn, variable, variables, name, isExport, options, threw, error, returned, console>>

----------------------------------------------------------------------------
(* Bounds of the input space.                                              *)

MaxAmount == 5
MaxMembers == 2
MaxVars == 2

----------------------------------------------------------------------------
(* Optional values, results.                                               *)

None == <<>>
Some(x) == <<x>>
IsNone(o) == Len(o) = 0
Get(o) == o[1]

Ok(v) == [threw |-> FALSE, value |-> v, error |-> "", log |-> <<>>]
Throw(e) == [threw |-> TRUE, value |-> <<>>, error |-> e, log |-> <<>>]

\* What was logged before a step stays logged whatever the step does.
WithLog(log, r) == [r EXCEPT !.log = log \o @]

\* Sequencing of two steps: an exception of the first skips the second.
Bind(r, F(_)) == IF r.threw THEN r ELSE WithLog(r.log, F(r.value))

\* The index of the first result that threw, 0 when none did.
FirstThrow(rs) ==
  IF \E i \in 1..Len(rs) : rs[i].threw
  THEN CHOOSE i \in 1..Len(rs) : rs[i].threw /\ \A j \in 1..(i - 1) : ~rs[j].threw
  ELSE 0

----------------------------------------------------------------------------
(* Strings of the source.                                                  *)

StructTag == <<"s", "t", "r", "u", "c", "t">>
BlockTag == <<"b", "l", "o", "c", "k">>
Vec4 == <<"v", "e", "c", "4">>
Float == <<"f", "l", "o", "a", "t">>

LowerCase == <<"a", "b", "c", "d", "e", "f", "g", "h", "i", "j", "k", "l", "m",
               "n", "o", "p", "q", "r", "s", "t", "u", "v", "w", "x", "y", "z">>
UpperCase == <<"A", "B", "C", "D", "E", "F", "G", "H", "I", "J", "K", "L", "M",
               "N", "O", "P", "Q", "R", "S", "T", "U", "V", "W", "X", "Y", "Z">>

\* String.prototype.toUpperCase on one character of an identifier.
ToUpperCase(c) ==
  IF \E i \in 1..Len(LowerCase) : LowerCase[i] = c
  THEN UpperCase[CHOOSE i \in 1..Len(LowerCase) : LowerCase[i] = c]
  ELSE c

\* Array.prototype.join(sep) on an array of strings.
RECURSIVE Join(_, _)
Join(parts, sep) ==
  IF Len(parts) = 0 THEN <<>>
  ELSE IF Len(parts) = 1 THEN parts[1]
  ELSE parts[1] \o sep \o Join(Tail(parts), sep)

\* Array.prototype.join() without an argument: the separator is ",".
DefaultSeparator == <<",">>

\* !x for an optional string or array: undefined, null, "" are falsy;
\* an array is truthy, so its length is tested apart.
Falsy(o) == IsNone(o)
FalsyString(o) == IsNone(o) \/ Get(o) = <<>>

---------------------------------------------------------------------------------------------------------------------------------------------------
(* writeVariable                                                           *)

RECURSIVE writeVariable(_)

RECURSIVE Concat(_)
Concat(parts) == IF Len(parts) = 0 THEN <<>> ELSE parts[1] \o Concat(Tail(parts))

\* Array.prototype.map with a callback that may throw: rs are the results of
\* the callback on the elements in order; the first exception ends the map.
mapResults(rs) ==
  LET k == FirstThrow(rs)
  IN [threw |-> k > 0,
      value |-> IF k > 0 THEN <<>> ELSE [i \in 1..Len(rs) |-> rs[i].value],
      error |-> IF k > 0 THEN rs[k].error ELSE "",
      log |-> Concat([i \in 1..(IF k > 0 THEN k - 1 ELSE Len(rs)) |-> rs[i].log])]

\* Variant: the struct name is used without the test that it is there.
structTypeNoCheck(v) ==
  IF v.type = StructTag
  THEN Ok(IF IsNone(v.structName) THEN <<"undefined">> ELSE Get(v.structName))
  ELSE Ok(v.type)

\* Variant: the struct name is capitalized, as the name of its interface is.
structTypeCapitalized(v) ==
  IF v.type = StructTag
  THEN IF FalsyString(v.structName)
       THEN Throw("Cannot find structName for variable")
       ELSE Ok(<<ToUpperCase(Get(v.structName)[1])>> \o Tail(Get(v.structName)))
  ELSE Ok(v.type)

\* type === "struct": the struct name is the type; thrown when it is missing.
structType(v) ==
  IF v.type = StructTag
  THEN IF FalsyString(v.structName)
       THEN Throw("Cannot find structName for variable")
       ELSE Ok(Get(v.structName))
  ELSE Ok(v.type)

\* variable.block.map(writeVariable)
mapWriteVariable(block) == mapResults([i \in 1..Len(block) |-> writeVariable(block[i])])

\* `{ ${lines.join(" ")} }`
braces(lines) == Ok(<<"{ ">> \o Join(lines, <<" ">>) \o <<" }">>)

\* Variant: the lines of the members are joined by ", ".
bracesCommaJoined(lines) == Ok(<<"{ ">> \o Join(lines, <<", ">>) \o <<" }">>)

\* Variant: a block whose members are joined by ", ".
blockTypeCommaJoined(v, type) ==
  IF v.type = BlockTag
  THEN IF Falsy(v.block) \/ Len(Get(v.block)) = 0
       THEN Throw("No block array for variable")
       ELSE Bind(mapWriteVariable(Get(v.block)), bracesCommaJoined)
  ELSE Ok(type)

\* Variant: the block array is mapped without the test that it has a member.
blockTypeNoCheck(v, type) ==
  IF v.type = BlockTag
  THEN Bind(mapWriteVariable(IF IsNone(v.block) THEN <<>> ELSE Get(v.block)), braces)
  ELSE Ok(type)

\* variable.type === "block": the members' lines, joined by a space, in braces.
blockType(v, type) ==
  IF v.type = BlockTag
  THEN IF Falsy(v.block) \/ Len(Get(v.block)) = 0
       THEN Throw("No block array for variable")
       ELSE Bind(mapWriteVariable(Get(v.block)), braces)
  ELSE Ok(type)

\* Variant: the tuple is joined by ", ", as the comment on join() has it.
arrayTypeSpaced(type, amount) ==
  IF amount > 1
  THEN IF amount < 5
       THEN <<"[">> \o Join([i \in 1..amount |-> type], <<", ">>) \o <<"]">>
       ELSE type \o <<"[]">>
  ELSE type

\* Variant: a tuple up to 5 elements (<= for <).
arrayTypeTupleUpTo5(type, amount) ==
  IF amount > 1
  THEN IF amount <= 5
       THEN <<"[">> \o Join([i \in 1..amount |-> type], DefaultSeparator) \o <<"]">>
       ELSE type \o <<"[]">>
  ELSE type

\* Variant: an amount of 1 is shaped as an array too (>= for >).
arrayTypeFrom1(type, amount) ==
  IF amount >= 1
  THEN IF amount < 5
       THEN <<"[">> \o Join([i \in 1..amount |-> type], DefaultSeparator) \o <<"]">>
       ELSE type \o <<"[]">>
  ELSE type

\* variable.amount > 1: a tuple below 5 elements, an array from 5 on.
arrayType(type, amount) ==
  IF amount > 1
  THEN IF amount < 5
       THEN <<"[">> \o Join([i \in 1..amount |-> type], DefaultSeparator) \o <<"]">>
       ELSE type \o <<"[]">>
  ELSE type

\* `${variable.name}: ${type};`
declaration(v, type) == Ok(v.name \o <<": ">> \o arrayType(type, v.amount) \o <<";">>)

writeVariable(v) ==
  Bind(structType(v), LAMBDA type : Bind(blockType(v, type), LAMBDA t : declaration(v, t)))

----------------------------------------------------------------------------
(* capitalize                                                              *)

\* Variant: the whole word is turned to upper case.
capitalizeAll(word) ==
  IF Len(word) = 0
  THEN Throw("TypeError")
  ELSE Ok([i \in 1..Len(word) |-> ToUpperCase(word[i])])

\* word[0] is undefined for the empty string, and undefined.toUpperCase throws.
capitalize(word) ==
  IF Len(word) = 0
  THEN Throw("TypeError")
  ELSE Ok(<<ToUpperCase(word[1])>> \o SubSeq(word, 2, Len(word)))

----------------------------------------------------------------------------
(* writeInterface                                                          *)

\* console.error("The interface %s has no variables set", name)
NoVariablesSet(n) == <<"The interface ">> \o n \o <<" has no variables set">>

\* `\n${isExport ? "export " : ""}interface ${name} {\n\t${lines.join("\n\t")}\n}`
interface(n, lines, export) ==
  Ok(<<"\n">> \o (IF export THEN <<"export ">> ELSE <<>>) \o <<"interface ">> \o n
     \o <<" {\n\t">> \o Join(lines, <<"\n\t">>) \o <<"\n}">>)

\* Variant: no message is written for an interface without variables.
writeInterfaceSilent(n, vs, export) ==
  IF Falsy(vs) \/ Len(Get(vs)) = 0
  THEN Ok(<<>>)
  ELSE Bind(mapWriteVariable(Get(vs)), LAMBDA lines : interface(n, lines, export))

writeInterface(n, vs, export) ==
  IF Falsy(vs) \/ Len(Get(vs)) = 0
  THEN WithLog(<<NoVariablesSet(n)>>, Ok(<<>>))
  ELSE Bind(mapWriteVariable(Get(vs)), LAMBDA lines : interface(n, lines, export))

-----
(* generate                                                                *)

\* The glslTypes constant: one token per `type ... = ...;` line of the
\* catalog, each standing for the line with the doc comment above it.
glslTypes ==
  << "type bool = boolean;", "type int = number;",
     "type uint = number;", "type float = number;",
     "type vec2 = [number, number];", "type vec3 = [number, number, number];",
     "type vec4 = [number, number, number, number];", "type bvec2 = [boolean, boolean];",
     "type bvec3 = [boolean, boolean, boolean];", "type bvec4 = [boolean, boolean, boolean, boolean];",
     "type ivec2 = [number, number];", "type ivec3 = [number, number, number];",
     "type ivec4 = [number, number, number, number];", "type uvec2 = [number, number];",
     "type uvec3 = [number, number, number];", "type uvec4 = [number, number, number, number];",
     "type mat2 = number[];", "type mat3 = number[];",
     "type mat4 = number[];", "type mat2x2 = number[];",
     "type mat2x3 = number[];", "type mat2x4 = number[];",
     "type mat3x2 = number[];", "type mat3x3 = number[];",
     "type mat3x4 = number[];", "type mat4x2 = number[];",
     "type mat4x3 = number[];", "type mat4x4 = number[];",
     "type sampler2D = number;", "type sampler3D = number;",
     "type samplerCube = number;", "type samplerCubeShadow = number;",
     "type sampler2DShadow = number;", "type sampler2DArray = number;",
     "type sampler2DArrayShadow = number;", "type isampler2D = number;",
     "type isampler3D = number;", "type isamplerCube = number;",
     "type isampler2DArray = number;", "type usampler2D = number;",
     "type usampler3D = number;", "type usamplerCube = number;",
     "type usampler2DArray = number;" >>

\* The defaults of the destructured options argument.
DefaultGenerateParseResult == TRUE
DefaultGenerateGLSLTypes == TRUE
DefaultInputsInterfaceName == <<"I", "n", "p", "u", "t", "s">>
DefaultOutputsInterfaceName == <<"O", "u", "t", "p", "u", "t", "s">>
DefaultInterfaceName == <<"V", "a", "r", "i", "a", "b", "l", "e", "s">>

\* A destructuring default applies when the property is undefined.
OrDefault(o, d) == IF IsNone(o) THEN d ELSE Get(o)

\* The predicates of the glsl_variables package this module imports: uniforms
\* and `in` variables are inputs, `out` variables are outputs.
isInputVariable(v) == v.qualifier \in {"in", "uniform"}
isOutputVariable(v) == v.qualifier = "out"
isStruct(v) == v.qualifier = "struct"

\* JSON.stringify of the parsed variables: absent properties are left out.
JSONString(s) == <<"\"">> \o s \o <<"\"">>

RECURSIVE JSONVariables(_)

JSONVariable(v) ==
  <<"{", "\"qualifier\":", "\"", v.qualifier, "\"", ",", "\"type\":">> \o JSONString(v.type)
  \o <<",", "\"name\":">> \o JSONString(v.name)
  \o <<",", "\"amount\":", ToString(v.amount)>>
  \o (IF IsNone(v.structName) THEN <<>>
      ELSE <<",", "\"structName\":">> \o JSONString(Get(v.structName)))
  \o (IF IsNone(v.block) THEN <<>>
      ELSE <<",", "\"block\":">> \o JSONVariables(Get(v.block)))
  \o <<"}">>

JSONVariables(vs) ==
  <<"[">> \o Join([i \in 1..Len(vs) |-> JSONVariable(vs[i])], <<",">>) \o <<"]">>

\* Variant: the extended interfaces are separated by ", ".
finalInterfaceSpaced(interfaceName, inputsInterfaceName, outputsInterfaceName) ==
  <<"\n", "export ", "interface ">> \o interfaceName \o <<" extends ">>
  \o inputsInterfaceName \o <<", ">> \o outputsInterfaceName \o <<" {}">>

\* `\nexport interface ${interfaceName} extends ${ioVars} {}`
finalInterface(interfaceName, inputsInterfaceName, outputsInterfaceName) ==
  <<"\n", "export ", "interface ">> \o interfaceName \o <<" extends ">>
  \o inputsInterfaceName \o <<",">> \o outputsInterfaceName \o <<" {}">>

\* `\nexport const vars = ${JSON.stringify(variables)};\n`
parseResult(vs) == <<"\n", "export ", "const vars = ">> \o JSONVariables(vs) \o <<";\n">>

\* `\nnamespace ${namespace} {\n${result}\n}`
wrapNamespace(namespace, result) ==
  <<"\n", "namespace ">> \o namespace \o <<" {\n">> \o result \o <<"\n}">>

joinLines(parts) == Ok(Join(parts, <<"\n">>))

\* structs.map((s) => writeInterface(capitalize(s.name), s.block)).join("\n")
writeStructs(structs) ==
  Bind(mapResults([i \in 1..Len(structs) |->
                     Bind(capitalize(structs[i].name),
                          LAMBDA n : writeInterface(n, structs[i].block, FALSE))]),
       joinLines)

\* Variant: the type catalog follows the generateParseResult option.
finishCoupled(vs, namespace, opts, result) ==
  Ok(wrapNamespace(namespace,
       result
       \o finalInterface(OrDefault(opts.interfaceName, DefaultInterfaceName),
                         OrDefault(opts.inputsInterfaceName, DefaultInputsInterfaceName),
                         OrDefault(opts.outputsInterfaceName, DefaultOutputsInterfaceName))
       \o (IF OrDefault(opts.generateParseResult, DefaultGenerateParseResult)
           THEN parseResult(vs) \o glslTypes ELSE <<>>)))

\* The text generate builds after the three interface parts, and its return.
finish(vs, namespace, opts, result) ==
  Ok(wrapNamespace(namespace,
       result
       \o finalInterface(OrDefault(opts.interfaceName, DefaultInterfaceName),
                         OrDefault(opts.inputsInterfaceName, DefaultInputsInterfaceName),
                         OrDefault(opts.outputsInterfaceName, DefaultOutputsInterfaceName))
       \o (IF OrDefault(opts.generateParseResult, DefaultGenerateParseResult)
           THEN parseResult(vs) ELSE <<>>)
       \o (IF OrDefault(opts.generateGLSLTypes, DefaultGenerateGLSLTypes)
           THEN glslTypes ELSE <<>>)))

\* Variant: the outputs interface is written before the inputs interface.
generateOutputsFirst(vs, namespace, opts) ==
  Bind(writeStructs(SelectSeq(vs, isStruct)), LAMBDA structs :
    Bind(writeInterface(OrDefault(opts.outputsInterfaceName, DefaultOutputsInterfaceName),
                        Some(SelectSeq(vs, isOutputVariable)), TRUE), LAMBDA outputs :
      Bind(writeInterface(OrDefault(opts.inputsInterfaceName, DefaultInputsInterfaceName),
                          Some(SelectSeq(vs, isInputVariable)), TRUE), LAMBDA inputs :
        finish(vs, namespace, opts, structs \o outputs \o inputs))))

\* generate, from the array parse(code) returned.
generate(vs, namespace, opts) ==
  Bind(writeStructs(SelectSeq(vs, isStruct)), LAMBDA structs :
    Bind(writeInterface(OrDefault(opts.inputsInterfaceName, DefaultInputsInterfaceName),
                        Some(SelectSeq(vs, isInputVariable)), TRUE), LAMBDA inputs :
      Bind(writeInterface(OrDefault(opts.outputsInterfaceName, DefaultOutputsInterfaceName),
                          Some(SelectSeq(vs, isOutputVariable)), TRUE), LAMBDA outputs :
        finish(vs, namespace, opts, structs \o inputs \o outputs))))

----------------------------------------------------------------------------
(* The inputs of the calls: GLSLVariable objects as the parser builds them. *)

Var(q, t, n, a, sn, b) ==
  [qualifier |-> q, type |-> t, name |-> n, amount |-> a, structName |-> sn, block |-> b]

Mat == <<"M", "a", "t">>
LowerMat == <<"m", "a", "t">>

\* Members are named by their position: names are unique in a scope.
NameAt(i) == <<"m", ToString(i)>>

ValidTypes == {[type |-> Vec4, structName |-> None],
               [type |-> StructTag, structName |-> Some(Mat)]}
InvalidTypes == {[type |-> StructTag, structName |-> None],
                 [type |-> StructTag, structName |-> Some(<<>>)]}

\* Variables of a base type or of a struct type, with every amount.
Leaves(n) ==
  {Var("in", p.type, n, a, p.structName, None) :
     p \in ValidTypes \cup InvalidTypes, a \in 1..MaxAmount}

\* The members of a block: the valid ones with every amount, and the ones
\* without a struct name.
MemberLeaves(n) ==
  {Var("", p.type, n, a, p.structName, None) : p \in ValidTypes, a \in 1..MaxAmount}
  \cup {Var("", p.type, n, 1, p.structName, None) : p \in InvalidTypes}

RECURSIVE MemberListsOf(_)
MemberListsOf(k) ==
  IF k = 0 THEN {<<>>}
  ELSE {Append(l, m) : l \in MemberListsOf(k - 1), m \in MemberLeaves(NameAt(k))}

MemberLists == UNION {MemberListsOf(k) : k \in 0..MaxMembers}

\* Uniform blocks of leaves, with and without a block array.
Blocks(n, lists) ==
  {Var("uniform", BlockTag, n, a, None, b) :
     a \in 1..MaxAmount, b \in {None} \cup {Some(l) : l \in lists}}

\* Blocks with one member that is a block itself.
NestedBlocks(n) ==
  {Var("uniform", BlockTag, n, a, None, Some(<<b>>)) :
     a \in 1..MaxAmount, b \in Blocks(NameAt(1), MemberListsOf(0) \cup MemberListsOf(1))}

Descriptors ==
  Leaves(<<"p", "o", "s">>) \cup Blocks(<<"U", "b", "o">>, MemberLists)
  \cup NestedBlocks(<<"U", "b", "o">>)

Words == {<<>>, Mat, LowerMat, <<"m">>, <<"_", "x">>, <<"a", "B", "c">>, <<"z", "z">>,
          <<"Z", "a", "z">>, <<"x", "1">>}

StructMembers ==
  <<Var("", Vec4, NameAt(1), 1, None, None), Var("", Float, NameAt(2), 3, None, None)>>

\* The variables parse(code) may return, by role.
ParsedVariables ==
  { Var("in", Vec4, <<"p", "o", "s">>, 1, None, None),
    Var("in", StructTag, <<"l", "i", "t">>, MaxAmount, Some(Mat), None),
    Var("in", StructTag, <<"b", "a", "d">>, 1, None, None),
    Var("uniform", BlockTag, <<"U", "b", "o">>, 1, None,
        Some(<<Var("", Vec4, NameAt(1), 1, None, None),
               Var("", StructTag, NameAt(2), MaxAmount, Some(LowerMat), None)>>)),
    Var("uniform", BlockTag, <<"E", "b", "o">>, 1, None, Some(<<>>)),
    Var("uniform", BlockTag, <<"N", "b", "o">>, 1, None, None),
    Var("uniform", BlockTag, <<"D", "b", "o">>, 1, None,
        Some(<<Var("", StructTag, NameAt(1), 1, None, None)>>)),
    Var("out", Vec4, <<"c", "o", "l">>, 3, None, None),
    Var("out", StructTag, <<"o", "b", "d">>, 1, Some(<<>>), None),
    Var("", StructTag, <<"t", "m", "p">>, 1, None, None),
    Var("struct", StructTag, LowerMat, 1, None, None),
    Var("struct", StructTag, LowerMat, 1, None, Some(StructMembers)),
    Var("struct", StructTag, Mat, 1, None, Some(<<>>)),
    Var("struct", StructTag, Mat, 1, None, Some(StructMembers)),
    Var("struct", StructTag, <<"_", "s">>, 1, None,
        Some(<<Var("", StructTag, NameAt(1), 1, None, None)>>)),
    Var("struct", StructTag, <<"_", "m">>, 1, None, Some(StructMembers)),
    Var("in", StructTag, <<"r", "e", "f">>, 1, Some(LowerMat), None),
    Var("out", StructTag, <<"u", "n", "d">>, 2, Some(<<"_", "m">>), None) }

RECURSIVE ListsOf(_, _)
ListsOf(S, k) ==
  IF k = 0 THEN {<<>>} ELSE {Append(l, x) : l \in ListsOf(S, k - 1), x \in S}

ListsUpTo(S, n) == UNION {ListsOf(S, k) : k \in 0..n}

Booleans == {None, Some(TRUE), Some(FALSE)}
Names(custom) == {None, Some(custom)}

AllOptions ==
  [generateParseResult : Booleans, generateGLSLTypes : Booleans,
   inputsInterfaceName : Names(<<"I">>), outputsInterfaceName : Names(<<"O">>),
   interfaceName : Names(<<"I", "O">>)]

\* The options of the tests, the defaults and renamed interfaces.
CoreOptions ==
  {o \in AllOptions :
     /\ o.generateParseResult # Some(TRUE)
     /\ o.generateGLSLTypes # Some(TRUE)
     /\ IsNone(o.inputsInterfaceName) = IsNone(o.outputsInterfaceName)
     /\ IsNone(o.inputsInterfaceName) = IsNone(o.interfaceName)}

GenerateInputs ==
  (ListsUpTo(ParsedVariables, MaxVars) \X CoreOptions)
  \cup (ListsUpTo(ParsedVariables, MaxVars - 1) \X AllOptions)

Namespace == <<"M", "y">>

NoVariable == Var("", <<>>, <<>>, 1, None, None)
NoOptions ==
  [generateParseResult |-> None, generateGLSLTypes |-> None, inputsInterfaceName |-> None,
   outputsInterfaceName |-> None, interfaceName |-> None]

----------------------------------------------------------------------------
(* The calls.                                                              *)

Init ==
  /\ fn = "idle"
  /\ variable = NoVariable
  /\ variables = None
  /\ name = <<>>
  /\ isExport = FALSE
  /\ options = NoOptions
  /\ threw = FALSE
  /\ error = ""
  /\ returned = <<>>
  /\ console = <<>>

Outcome(r) ==
  /\ threw' = r.threw
  /\ error' = r.error
  /\ returned' = r.value
  /\ console' = r.log

CallWriteVariable ==
  /\ fn = "idle"
  /\ \E d \in Descriptors :
       /\ fn' = "writeVariable"
       /\ variable' = d
       /\ Outcome(writeVariable(d))
  /\ UNCHANGED <<variables, name, isExport, options>>

CallWriteInterface ==
  /\ fn = "idle"
  /\ \E n \in {Mat}, vs \in {None} \cup {Some(l) : l \in MemberLists}, e \in BOOLEAN :
       /\ fn' = "writeInterface"
       /\ name' = n
       /\ variables' = vs
       /\ isExport' = e
       /\ Outcome(writeInterface(n, vs, e))
  /\ UNCHANGED <<variable, options>>

CallCapitalize ==
  /\ fn = "idle"
  /\ \E w \in Words :
       /\ fn' = "capitalize"
       /\ name' = w
       /\ Outcome(capitalize(w))
  /\ UNCHANGED <<variable, variables, isExport, options>>

CallGenerate ==
  /\ fn = "idle"
  /\ \E in \in GenerateInputs :
       /\ fn' = "generate"
       /\ variables' = Some(in[1])
       /\ options' = in[2]
       /\ name' = Namespace
       /\ Outcome(generate(in[1], Namespace, in[2]))
  /\ UNCHANGED <<variable, isExport>>

Next == CallWriteVariable \/ CallWriteInterface \/ CallCapitalize \/ CallGenerate

Spec == Init /\ [][Next]_vars

----------------------------------------------------------------------------
(* Properties of writeVariable.                                            *)

Contains(text, sub) ==
  \E i \in 0..(Len(text) - Len(sub)) : SubSeq(text, i + 1, i + Len(sub)) = sub

Count(text, sub) ==
  Cardinality({i \in 0..(Len(text) - Len(sub)) : SubSeq(text, i + 1, i + Len(sub)) = sub})

\* x is n copies of T with one "," token, and nothing else, between two copies.
IsCopies(x, T, n) ==
  /\ Len(x) = n * Len(T) + (n - 1)
  /\ \A k \in 0..(n - 1) :
       SubSeq(x, k * (Len(T) + 1) + 1, k * (Len(T) + 1) + Len(T)) = T
  /\ \A k \in 1..(n - 1) : x[k * (Len(T) + 1)] = ","

\* The type text of a variable before array shaping: the type tag of a base
\* type, the struct name of a struct type, the braced text of a block.
TypeText(v) ==
  IF v.type = StructTag THEN Get(v.structName)
  ELSE IF v.type = BlockTag THEN blockType(v, v.type).value
  ELSE v.type

\* What a declaration line holds between `<name>: ` and `;`.
TypePart(line, v) == SubSeq(line, Len(v.name) + 2, Len(line) - 1)

IsDeclaration(line, v) ==
  /\ Len(line) >= Len(v.name) + 2
  /\ SubSeq(line, 1, Len(v.name)) = v.name
  /\ line[Len(v.name) + 1] = ": "
  /\ line[Len(line)] = ";"

Written == fn = "writeVariable" /\ ~threw

C2_Array ==
  Written =>
    /\ variable.amount >= 5 =>
         returned = variable.name \o <<": ">> \o TypeText(variable) \o <<"[]", ";">>
    /\ variable.type = BlockTag =>
         \A i \in 1..Len(Get(variable.block)) :
           LET m == Get(variable.block)[i]
           IN (m.type = StructTag /\ m.amount >= 5) =>
                Contains(returned, m.name \o <<": ">> \o Get(m.structName) \o <<"[]", ";">>)

C2_Witness ==
  /\ Written
  /\ variable.amount >= 5
  /\ variable.type = BlockTag
  /\ \E i \in 1..Len(Get(variable.block)) :
       Get(variable.block)[i].type = StructTag /\ Get(variable.block)[i].amount >= 5

\* C3: a variable with an amount of 1 is declared as `<name>: T;`, T being the
\* type tag, the struct name or the braced text, with no bracket added.
C3_Plain ==
  (Written /\ variable.amount = 1) =>
    /\ returned = variable.name \o <<": ">> \o TypeText(variable) \o <<";">>
    /\ variable.type = StructTag => TypePart(returned, variable) = Get(variable.structName)
    /\ variable.type \notin {StructTag, BlockTag} => TypePart(returned, variable) = variable.type
    /\ variable.type = BlockTag =>
         /\ TypePart(returned, variable)[1] = "{ "
         /\ TypePart(returned, variable)[Len(TypePart(returned, variable))] = " }"

C3_Witness ==
  /\ Written
  /\ variable.amount = 1
  /\ variable.type = StructTag

\* The type text of a written variable, read back from its declaration line:
\* the whole type part, one copy of a tuple, or what precedes `[]`.
BeforeShaping(line, v) ==
  LET part == TypePart(line, v)
  IN IF v.amount <= 1 THEN part
     ELSE IF v.amount < 5
          THEN SubSeq(part, 2, 1 + ((Len(part) - 2 - (v.amount - 1)) \div v.amount))
          ELSE SubSeq(part, 1, Len(part) - 1)

RECURSIVE SumLen(_, _)
SumLen(lines, k) == IF k = 0 THEN 0 ELSE SumLen(lines, k - 1) + Len(lines[k])

\* The declaration of a struct-typed variable: its struct name, shaped by its amount.
StructDeclaration(m) ==
  m.name \o <<": ">>
  \o (IF m.amount = 1 THEN Get(m.structName)
      ELSE IF m.amount \in 2..4
           THEN <<"[">> \o Get(m.structName)
                \o Concat([i \in 1..(m.amount - 1) |-> <<",">> \o Get(m.structName)])
                \o <<"]">>
           ELSE Get(m.structName) \o <<"[]">>)
  \o <<";">>

\* C4: the type text of a block with members is `{ `, the lines writeVariable
\* gives for the members, in member order with exactly one space between two
\* lines, and ` }`; a struct-typed member is declared with its struct name,
\* shaped by its own amount.
C4_Block ==
  (Written /\ variable.type = BlockTag) =>
    LET T == BeforeShaping(returned, variable)
        members == Get(variable.block)
        n == Len(members)
        lines == [i \in 1..n |-> writeVariable(members[i]).value]
        start(i) == 1 + SumLen(lines, i - 1) + (i - 1)
    IN /\ n > 0
       /\ Len(T) = 2 + SumLen(lines, n) + (n - 1)
       /\ T[1] = "{ "
       /\ T[Len(T)] = " }"
       /\ \A i \in 1..n : SubSeq(T, start(i) + 1, start(i) + Len(lines[i])) = lines[i]
       /\ \A i \in 1..(n - 1) : T[start(i) + Len(lines[i]) + 1] = " "
       /\ \A i \in 1..n :
            members[i].type = StructTag => lines[i] = StructDeclaration(members[i])

C4_Witness ==
  /\ Written
  /\ variable.type = BlockTag
  /\ Len(Get(variable.block)) = 2
  /\ Get(variable.block)[1].type = StructTag
  /\ Get(variable.block)[1].amount = 2
  /\ Get(variable.block)[2].type = Vec4

----------------------------------------------------------------------------
(* Properties of the errors.                                               *)

MissingStructAlias(d) == d.type = StructTag /\ (IsNone(d.structName) \/ Get(d.structName) = <<>>)
EmptyBlock(d) == d.type = BlockTag /\ (IsNone(d.block) \/ Len(Get(d.block)) = 0)

\* A variable and the members, at any depth, of the blocks in it.
RECURSIVE NodesOf(_)
NodesOf(v) ==
  {v} \cup (IF v.type = BlockTag /\ ~IsNone(v.block)
            THEN UNION {NodesOf(Get(v.block)[i]) : i \in 1..Len(Get(v.block))}
            ELSE {})

Range(seq) == {seq[i] : i \in 1..Len(seq)}

\* The descriptors a generation reaches: the input and output variables, the
\* members of the struct definitions, and the members of the blocks in these.
Reached(vs) ==
  UNION {NodesOf(d) : d \in {v \in Range(vs) : v.qualifier \in {"in", "uniform", "out"}}
                           \cup UNION {Range(Get(v.block)) :
                                         v \in {w \in Range(vs) :
                                                  w.qualifier = "struct" /\ ~IsNone(w.block)}}}

Generated == fn = "generate"

\* C5: when a descriptor the generation reaches has the type struct and no
\* struct name, or an empty one, generate throws and returns no text.
C5_MissingStructAlias ==
  (Generated /\ \E d \in Reached(Get(variables)) : MissingStructAlias(d)) =>
    threw /\ returned = <<>>

\* The missing name is met in the outputs, after the struct and input
\* interfaces were built, and inside a block.
C5_Witness ==
  /\ Generated
  /\ threw
  /\ error = "Cannot find structName for variable"
  /\ Len(Get(variables)) = 2
  /\ Get(variables)[1].qualifier = "in"
  /\ ~writeVariable(Get(variables)[1]).threw
  /\ Get(variables)[2].qualifier = "out"
  /\ MissingStructAlias(Get(variables)[2])

\* C6: when a descriptor the generation reaches has the type block and no
\* member, generate throws and returns no text; and writeVariable throws
\* exactly when the tree of its variable holds a struct without a name or a
\* block without a member.
C6_EmptyBlock ==
  /\ (Generated /\ \E d \in Reached(Get(variables)) : EmptyBlock(d)) =>
       threw /\ returned = <<>>
  /\ fn = "writeVariable" =>
       /\ threw <=> \E d \in NodesOf(variable) : MissingStructAlias(d) \/ EmptyBlock(d)
       /\ ~threw => IsDeclaration(returned, variable)

C6_Witness ==
  /\ Generated
  /\ threw
  /\ error = "No block array for variable"
  /\ \E i \in 1..Len(Get(variables)) : EmptyBlock(Get(variables)[i]) /\ IsNone(Get(variables)[i].block)

----------------------------------------------------------------------------
(* Properties of generate.                                                 *)

Parsed == Get(variables)
StructsOf(vs) == SelectSeq(vs, LAMBDA v : v.qualifier = "struct")
InputsOf(vs) == SelectSeq(vs, LAMBDA v : v.qualifier \in {"in", "uniform"})
OutputsOf(vs) == SelectSeq(vs, LAMBDA v : v.qualifier = "out")

InputsName == IF IsNone(options.inputsInterfaceName)
              THEN <<"I", "n", "p", "u", "t", "s">> ELSE Get(options.inputsInterfaceName)
OutputsName == IF IsNone(options.outputsInterfaceName)
               THEN <<"O", "u", "t", "p", "u", "t", "s">> ELSE Get(options.outputsInterfaceName)
VariablesName == IF IsNone(options.interfaceName)
                 THEN <<"V", "a", "r", "i", "a", "b", "l", "e", "s">>
                 ELSE Get(options.interfaceName)

\* A name with its first character in upper case and the rest as it is.
Capitalized(n) == <<ToUpperCase(n[1])>> \o Tail(n)

NoMembers(s) == IsNone(s.block) \/ Len(Get(s.block)) = 0
Fatal(vs) == \E d \in Reached(vs) : MissingStructAlias(d) \/ EmptyBlock(d)

Diagnostic(n) == <<"The interface ">> \o n \o <<" has no variables set">>

\* The diagnostics of the partitions without a descriptor, in the order of
\* the generation: struct definitions, inputs, outputs.
Diagnostics(vs) ==
  Concat([i \in 1..Len(StructsOf(vs)) |->
            IF NoMembers(StructsOf(vs)[i])
            THEN <<Diagnostic(Capitalized(StructsOf(vs)[i].name))>> ELSE <<>>])
  \o (IF Len(InputsOf(vs)) = 0 THEN <<Diagnostic(InputsName)>> ELSE <<>>)
  \o (IF Len(OutputsOf(vs)) = 0 THEN <<Diagnostic(OutputsName)>> ELSE <<>>)

SomePartitionEmpty(vs) ==
  \/ Len(InputsOf(vs)) = 0
  \/ Len(OutputsOf(vs)) = 0
  \/ \E i \in 1..Len(StructsOf(vs)) : NoMembers(StructsOf(vs)[i])

IsWrapped(text) ==
  /\ Len(text) >= Len(name) + 4
  /\ SubSeq(text, 1, Len(name) + 3) = <<"\n", "namespace ">> \o name \o <<" {\n">>
  /\ text[Len(text)] = "\n}"

\* writeInterface returns "" for no variables, and generate goes on: it throws
\* for a fatal descriptor only, and returns the wrapped text with an interface
\* for each partition that has descriptors and none for the others.
C7_Continues ==
  /\ (fn = "writeInterface" /\ NoMembers([block |-> variables])) =>
       ~threw /\ returned = <<>>
  /\ (Generated /\ SomePartitionEmpty(Parsed)) =>
       /\ threw <=> Fatal(Parsed)
       /\ ~threw =>
            /\ IsWrapped(returned)
            /\ Count(returned, <<"\n", "interface ">>)
                 = Cardinality({i \in 1..Len(StructsOf(Parsed)) : ~NoMembers(StructsOf(Parsed)[i])})
            /\ Len(InputsOf(Parsed)) > 0 <=>
                 Contains(returned, <<"export ", "interface ">> \o InputsName \o <<" {\n\t">>)
            /\ Len(OutputsOf(Parsed)) > 0 <=>
                 Contains(returned, <<"export ", "interface ">> \o OutputsName \o <<" {\n\t">>)
            /\ Len(InputsOf(Parsed)) > 0 =>
                 Contains(returned, writeInterface(InputsName, Some(InputsOf(Parsed)), TRUE).value)
            /\ Len(OutputsOf(Parsed)) > 0 =>
                 Contains(returned, writeInterface(OutputsName, Some(OutputsOf(Parsed)), TRUE).value)

\* C7 as stated: the diagnostics of the empty partitions are reported with
\* the result generate returns.
C7_ReportedWithResult ==
  /\ C7_Continues
  /\ (fn = "writeInterface" /\ NoMembers([block |-> variables])) =>
       console = <<Diagnostic(name)>>
  /\ (Generated /\ ~threw) =>
       /\ console = Diagnostics(Parsed)
       /\ \A i \in 1..Len(console) : Contains(returned, console[i])

\* C7 as amended: the diagnostics of the empty partitions, each naming its
\* interface, are written with console.error; the string generate returns
\* holds none of them.
C7_WrittenToConsole ==
  /\ C7_Continues
  /\ (fn = "writeInterface" /\ NoMembers([block |-> variables])) =>
       console = <<Diagnostic(name)>>
  /\ (Generated /\ ~threw) =>
       /\ console = Diagnostics(Parsed)
       /\ \A i \in 1..Len(console) : ~Contains(returned, console[i])

C7_Witness ==
  /\ Generated
  /\ ~threw
  /\ Len(InputsOf(Parsed)) > 0
  /\ Len(OutputsOf(Parsed)) = 0
  /\ \E i \in 1..Len(StructsOf(Parsed)) : IsNone(StructsOf(Parsed)[i].block)
  /\ Len(console) = 2

Aggregate ==
  <<"interface ">> \o VariablesName \o <<" extends ">> \o InputsName \o <<",">>
  \o OutputsName \o <<" {}">>

\* C8: the text generate returns holds exactly one declaration
\* `interface <interfaceName> extends <inputsInterfaceName>,<outputsInterfaceName> {}`,
\* whatever the descriptors and the options.
C8_Aggregate == (Generated /\ ~threw) => Count(returned, Aggregate) = 1

C8_Witness ==
  /\ Generated
  /\ ~threw
  /\ Len(InputsOf(Parsed)) = 0
  /\ Len(OutputsOf(Parsed)) > 0
  /\ ~IsNone(options.interfaceName)
  /\ Count(returned, Aggregate) = 1

StructFragments(vs) ==
  [i \in 1..Len(StructsOf(vs)) |->
     writeInterface(Capitalized(StructsOf(vs)[i].name), StructsOf(vs)[i].block, FALSE).value]

ParseResultEnabled ==
  IF IsNone(options.generateParseResult) THEN TRUE ELSE Get(options.generateParseResult)
GLSLTypesEnabled ==
  IF IsNone(options.generateGLSLTypes) THEN TRUE ELSE Get(options.generateGLSLTypes)

UpperCaseLetters == {UpperCase[i] : i \in 1..Len(UpperCase)}

\* C10: capitalize turns the first character of a non-empty name to upper case
\* and leaves the rest, so a name that starts in upper case stays as it is;
\* the interface of a struct definition has the capitalized name and one
\* declaration line for each member, in member order.
C10_StructInterface ==
  /\ (fn = "capitalize" /\ Len(name) > 0) =>
       /\ ~threw
       /\ Len(returned) = Len(name)
       /\ returned[1] = ToUpperCase(name[1])
       /\ \A i \in 2..Len(name) : returned[i] = name[i]
       /\ name[1] \in UpperCaseLetters => returned = name
  /\ (Generated /\ ~threw) =>
       \A i \in 1..Len(StructsOf(Parsed)) :
         LET s == StructsOf(Parsed)[i]
             members == Get(s.block)
         IN (Len(s.name) > 0 /\ ~NoMembers(s)) =>
              /\ Contains(returned,
                   <<"\n", "interface ", ToUpperCase(s.name[1])>> \o Tail(s.name)
                   \o <<" {\n\t">>
                   \o Concat([j \in 1..Len(members) |->
                                writeVariable(members[j]).value
                                \o (IF j < Len(members) THEN <<"\n\t">> ELSE <<"\n}">>)]))

C10_Witness ==
  /\ Generated
  /\ ~threw
  /\ \E i \in 1..Len(Parsed) :
       /\ Parsed[i].qualifier = "struct"
       /\ Parsed[i].name = <<"m", "a", "t">>
       /\ ~NoMembers(Parsed[i])
  /\ Contains(returned, <<"\n", "interface ", "M", "a", "t", " {\n\t">>)

----------------------------------------------------------------------------
(* Properties of the options.                                              *)

\* `export const vars = <the parsed variables as JSON>;`
ParseResultConstant ==
  <<"export ", "const vars = ">> \o JSONVariables(Parsed) \o <<";\n">>

CatalogLines == {glslTypes[i] : i \in 1..Len(glslTypes)}

\* C11: the text generate returns holds the exported constant with the JSON
\* of the whole list of parsed variables, struct definitions included, exactly
\* when generateParseResult is true or left out, whatever generateGLSLTypes
\* and the list are; it holds the type catalog once when generateGLSLTypes is
\* true or left out and no line of it when it is false, whatever
\* generateParseResult and the list are; an interface name left out is
\* "Inputs", "Outputs", "Variables".
C11_Options ==
  (Generated /\ ~threw) =>
    /\ Contains(returned, ParseResultConstant)
         <=> options.generateParseResult \in {None, Some(TRUE)}
    /\ Count(returned, <<"const vars = ">>)
         = (IF options.generateParseResult = Some(FALSE) THEN 0 ELSE 1)
    /\ \A i \in 1..Len(Parsed) :
         options.generateParseResult # Some(FALSE) =>
           Contains(returned, JSONVariable(Parsed[i]))
    /\ Count(returned, glslTypes)
         = (IF options.generateGLSLTypes = Some(FALSE) THEN 0 ELSE 1)
    /\ \A i \in 1..Len(returned) :
         returned[i] \in CatalogLines => options.generateGLSLTypes # Some(FALSE)
    /\ Cardinality({i \in 1..Len(returned) : returned[i] \in CatalogLines})
         = (IF options.generateGLSLTypes = Some(FALSE) THEN 0 ELSE Len(glslTypes))
    /\ IsNone(options.interfaceName) =>
         Contains(returned, <<"interface ", "V", "a", "r", "i", "a", "b", "l", "e", "s", " extends ">>)
    /\ IsNone(options.inputsInterfaceName) =>
         /\ Contains(returned, <<" extends ", "I", "n", "p", "u", "t", "s", ",">>)
         /\ Len(InputsOf(Parsed)) > 0 =>
              Contains(returned,
                <<"export ", "interface ", "I", "n", "p", "u", "t", "s", " {\n\t">>)
    /\ IsNone(options.outputsInterfaceName) =>
         /\ Contains(returned, <<",", "O", "u", "t", "p", "u", "t", "s", " {}">>)
         /\ Len(OutputsOf(Parsed)) > 0 =>
              Contains(returned,
                <<"export ", "interface ", "O", "u", "t", "p", "u", "t", "s", " {\n\t">>)

\* The constant is off and the catalog is left to its default, for a list with
\* a struct definition and an input.
C11_Witness ==
  /\ Generated
  /\ ~threw
  /\ options.generateParseResult = Some(FALSE)
  /\ IsNone(options.generateGLSLTypes)
  /\ IsNone(options.inputsInterfaceName)
  /\ Len(StructsOf(Parsed)) = 1
  /\ Len(InputsOf(Parsed)) = 1
  /\ Count(returned, glslTypes) = 1
  /\ ~Contains(returned, <<"const vars = ">>)

----------------------------------------------------------------------------
(* Properties of the references to struct definitions.                     *)

\* The text declares an interface of this name.
Declares(text, n) == Contains(text, <<"interface ">> \o n \o <<" {\n\t">>)

\* The descriptors of a generation that have the type struct.
References(vs) == {d \in Reached(vs) : d.type = StructTag}

\* The struct definitions with members that a reference names.
DefinitionsOf(vs, d) ==
  {i \in 1..Len(StructsOf(vs)) :
     /\ ~NoMembers(StructsOf(vs)[i])
     /\ StructsOf(vs)[i].name = Get(d.structName)}

LowerCaseLetters == {LowerCase[i] : i \in 1..Len(LowerCase)}

\* What C12 says of both ways of writing a struct name: a reference is declared
\* with its struct name as it is, whatever its amount, and the interface of a
\* struct definition with members has the capitalized name.
VerbatimAndCapitalized ==
  /\ (Written /\ variable.type = StructTag) =>
       BeforeShaping(returned, variable) = Get(variable.structName)
  /\ (Generated /\ ~threw) =>
       /\ \A d \in References(Parsed) :
            Contains(returned, StructDeclaration(d))
       /\ \A i \in 1..Len(StructsOf(Parsed)) :
            ~NoMembers(StructsOf(Parsed)[i]) =>
              Declares(returned, Capitalized(StructsOf(Parsed)[i].name))

\* C12 as stated: the name a reference uses is the name of the interface of
\* the struct definition it names exactly when the name of the struct starts
\* with an upper case letter; otherwise the text declares no interface of the
\* name the reference uses.
C12_UpperCaseOnly ==
  /\ VerbatimAndCapitalized
  /\ (Generated /\ ~threw) =>
       \A d \in References(Parsed) : \A i \in DefinitionsOf(Parsed, d) :
         LET s == StructsOf(Parsed)[i]
         IN /\ Get(d.structName) = Capitalized(s.name) <=> s.name[1] \in UpperCaseLetters
            /\ s.name[1] \notin UpperCaseLetters => ~Declares(returned, Get(d.structName))

\* C12 as amended: the name a reference uses is the name of the interface of
\* the struct definition it names exactly when upper-casing the first
\* character of the struct name leaves it as it is, which is so for an upper
\* case letter and for the underscore; for a struct name that starts with a
\* lower case letter the text declares no interface of the name the reference
\* uses.
C12_FirstCharacterUnchanged ==
  /\ VerbatimAndCapitalized
  /\ (Generated /\ ~threw) =>
       \A d \in References(Parsed) : \A i \in DefinitionsOf(Parsed, d) :
         LET s == StructsOf(Parsed)[i]
         IN /\ Get(d.structName) = Capitalized(s.name) <=> ToUpperCase(s.name[1]) = s.name[1]
            /\ s.name[1] \in UpperCaseLetters \cup {"_"} =>
                 /\ Get(d.structName) = Capitalized(s.name)
                 /\ Declares(returned, Get(d.structName))
            /\ s.name[1] \in LowerCaseLetters =>
                 /\ Get(d.structName) # Capitalized(s.name)
                 /\ ~Declares(returned, Get(d.structName))

\* A reference to a struct definition with a lower case name: the interface
\* is Mat, the reference is declared with mat.
C12_Witness ==
  /\ Generated
  /\ ~threw
  /\ Len(Parsed) = 2
  /\ Parsed[1].qualifier = "struct"
  /\ Parsed[1].name = <<"m", "a", "t">>
  /\ Parsed[2].type = StructTag
  /\ Parsed[2].structName = Some(<<"m", "a", "t">>)
  /\ Contains(returned, <<"interface ", "M", "a", "t", " {\n\t">>)
  /\ Contains(returned, <<"r", "e", "f", ": ", "m", "a", "t", ";">>)
  /\ ~Contains(returned, <<"interface ", "m", "a", "t", " {\n\t">>)

====
